---- MODULE Spec2Model ----
(***************************************************************************)
(* Document-processor service: the Document lifecycle model                *)
(* (models/document.py) and the processors that drive it                   *)
(* (processors/*.py, core/document_classifier.py, utils/image_utils.py).   *)
(*                                                                         *)
(* Conventions                                                             *)
(*   - Python None is the string None for text values and NoTime for       *)
(*     timestamps; a dict is a total function whose missing keys map to    *)
(*     Absent.                                                             *)
(*   - Confidences are integers in hundredths (0.95 is 95).                *)
(*   - One caller thread: a processor run is a sequence of steps (pc), and *)
(*     direct update_status / update_metadata calls happen between runs.   *)
(*   - Calls on injected collaborators (OCR engine, text extractor,        *)
(*     models) return or raise, chosen by the environment.                 *)
(***************************************************************************)
EXTENDS Integers, Sequences, FiniteSets, TLC

\* ------------------------------------------------------------------ bounds
MaxOps == 2       \* operations on the document explored: direct calls and runs
MaxUpdates == 4   \* Application.update_status calls explored

\* --------------------------------------------------------------- constants
None == "None"
Absent == "<absent>"
NoTime == 0

\* APPLICATION_STATUS: the members the code names (Application.
\* _is_valid_status_transition); the code passes and compares them as the
\* strings of their names
APPLICATION_STATUS == {"PENDING", "PROCESSING", "COMPLETED", "FAILED"}

\* what a caller may pass as new_status: the four members and one stranger
StatusInputs == APPLICATION_STATUS \cup {"ARCHIVED"}
ReasonInputs == {None, "", "r1"}
UserIdInputs == {None, "u1"}

\* Application._is_valid_status_transition: the lifecycle table
LegalTransitions ==
    { <<"PENDING", "PROCESSING">>, <<"PENDING", "FAILED">>,
      <<"PROCESSING", "COMPLETED">>, <<"PROCESSING", "FAILED">>,
      <<"FAILED", "PROCESSING">> }

MetaKeys ==
    { "k1", "k2",
      "processing_duration", "ocr_confidence", "ocr_metrics",
      "validation_result", "validation_message", "processed_at",
      "processing_metrics", "validation_results", "confidence_score",
      "extraction_results", "classification" }

EmptyDict == [k \in MetaKeys |-> Absent]

\* a dict literal given as a set of <<key, value>> pairs
Dict(pairs) ==
    [k \in MetaKeys |->
        IF \E p \in pairs : p[1] = k
        THEN (CHOOSE p \in pairs : p[1] = k)[2]
        ELSE Absent]

Keys(d) == {k \in MetaKeys : d[k] # Absent}

\* new_metadata arguments of direct update_metadata calls
MetaInputs ==
    { EmptyDict,
      Dict({<<"k1", "a">>}),
      Dict({<<"k1", "b">>, <<"k2", "a">>}),
      Dict({<<"ocr_confidence", "b">>}) }

\* ---------------------------------------------------------------- Document
\* Document(...) as the fixtures build it: status defaults to PENDING
NewDocument(t) ==
    [ status |-> "PENDING",
      metadata |-> EmptyDict,
      created_at |-> t,
      updated_at |-> t,
      processed_at |-> NoTime,
      failure_reason |-> None,
      audit_log |-> <<>> ]

\* an assignment self.metadata = new_metadata would replace instead of merge
DictUpdateReplacing(old, m) == m

\* dict.update: keys of m take m's value, the others keep theirs
DictUpdate(old, m) ==
    [k \in MetaKeys |-> IF m[k] # Absent THEN m[k] ELSE old[k]]

\* str(user_id) if user_id else None
UserIdStr(user_id) == IF user_id = None THEN None ELSE user_id

\* Document.update_status raises ValueError (line 103-104)
update_status_raises(doc, new_status) == new_status \notin APPLICATION_STATUS

\* an entry built after self.status is assigned, reading it for old_value
StatusEntryStale(old_status, new_status, reason, user_id, t) ==
    [ timestamp |-> t,
      action |-> "status_update",
      old_value |-> new_status,
      new_value |-> new_status,
      reason |-> reason,
      user_id |-> UserIdStr(user_id) ]

\* the audit entry of update_status (lines 116-123)
StatusEntry(old_status, new_status, reason, user_id, t) ==
    [ timestamp |-> t,
      action |-> "status_update",
      old_value |-> old_status,
      new_value |-> new_status,
      reason |-> reason,
      user_id |-> UserIdStr(user_id) ]

\* Document.update_status past its argument check (lines 106-123)
update_status(doc, new_status, reason, user_id, t) ==
    [ doc EXCEPT
        !.status = new_status,
        !.updated_at = t,
        !.processed_at = IF new_status = "COMPLETED" THEN t ELSE @,
        !.failure_reason = IF new_status = "FAILED" THEN reason ELSE @,
        !.audit_log = Append(@, StatusEntry(doc.status, new_status, reason, user_id, t)) ]

\* The audit entry of update_metadata stores self.metadata itself, the live
\* dict, as new_value: every metadata_update entry shares that one object, so
\* the in-place self.metadata.update(...) shows through all of them.
Alias(log, live) ==
    [i \in 1..Len(log) |->
        IF log[i].action = "metadata_update"
        THEN [log[i] EXCEPT !.new_value = live]
        ELSE log[i]]

\* Document.update_metadata (lines 134-145)
update_metadata(doc, new_metadata, user_id, t) ==
    LET old_metadata == doc.metadata
        merged == DictUpdate(doc.metadata, new_metadata)
    IN [ doc EXCEPT
           !.metadata = merged,
           !.updated_at = t,
           !.audit_log = Append(Alias(@, merged),
                                [ timestamp |-> t,
                                  action |-> "metadata_update",
                                  old_value |-> old_metadata,
                                  new_value |-> merged,
                                  user_id |-> UserIdStr(user_id) ]) ]

\* ------------------------------------------------------------------ images
\* utils/image_utils.py MIN_IMAGE_SIZE, MAX_IMAGE_SIZE: (width, height)
MIN_IMAGE_SIZE == <<800, 600>>
MAX_IMAGE_SIZE == <<4096, 4096>>

\* an np.ndarray by what validate_image reads: shape and np.std
Image(w, h, n, c) == [width |-> w, height |-> h, ndim |-> n, contrast |-> c]

Images ==
    { Image(800, 600, 3, 50),      \* smallest accepted colour image
      Image(4096, 4096, 2, 20),    \* largest accepted grey image
      Image(800, 600, 2, 19),      \* grey, too little contrast
      Image(799, 600, 3, 50),      \* too narrow
      Image(800, 599, 3, 50),      \* too short
      Image(4097, 600, 3, 50),     \* too wide
      Image(800, 4097, 3, 50),     \* too tall
      Image(1000, 800, 4, 50) }    \* shape of length 4

\* the images handed to the processors
RunImages ==
    { Image(800, 600, 3, 50), Image(800, 600, 2, 19),
      Image(799, 600, 3, 50), Image(800, 4097, 3, 50) }

OutsideDimensions(image) ==
    \/ image.width < MIN_IMAGE_SIZE[1]
    \/ image.height < MIN_IMAGE_SIZE[2]
    \/ image.width > MAX_IMAGE_SIZE[1]
    \/ image.height > MAX_IMAGE_SIZE[2]

\* validate_image(image) -> (valid, message)
validate_image(image) ==
    IF OutsideDimensions(image)
    THEN [valid |-> FALSE, message |-> "Image dimensions outside acceptable range"]
    ELSE IF image.ndim \notin {2, 3}
    THEN [valid |-> FALSE, message |-> "Invalid number of channels"]
    ELSE IF image.ndim = 2 /\ image.contrast < 20
    THEN [valid |-> FALSE, message |-> "Insufficient contrast"]
    ELSE [valid |-> TRUE, message |-> "Image validation successful"]

\* ------------------------------------------------------------ collaborators
\* OCR run confidences the backend may report, in hundredths
Confidences == {94, 95}
ConfStr(c) == IF c = 94 THEN "0.94" ELSE IF c = 95 THEN "0.95" ELSE "conf"

Returned(v) == [raised |-> FALSE, value |-> v, message |-> ""]
Raised(msg) == [raised |-> TRUE, value |-> 0, message |-> msg]

\* OCREngine.extract_text(image): ValueError on an invalid image, else the
\* backend's result or, retries exhausted, its exception
extract_text(image) ==
    IF ~validate_image(image).valid
    THEN { Raised("Invalid image") }
    ELSE { Raised("OCR backend error") } \cup { Returned(c) : c \in Confidences }

\* optimize_for_ocr(image): ValueError on an invalid image, else the cleaned
\* binary image (grey, same size; its contrast is the content's)
optimize_for_ocr(image) ==
    IF ~validate_image(image).valid
    THEN { Raised("Invalid input image") }
    ELSE { Returned(Image(image.width, image.height, 2, c)) : c \in {19, 20} }

\* bank_statement_processor.REQUIRED_CONFIDENCE = 0.95
REQUIRED_CONFIDENCE == 95

DOCUMENT_PATTERNS == {"BANK_STATEMENT", "ISO_APPLICATION", "VOIDED_CHECK"}

BoolStr(b) == IF b THEN "True" ELSE "False"

\* --------------------------------------------------------------- classifier
\* Classifier confidences are in thousandths (0.95 is 950); the inputs are
\* multiples of ten, so the weights, in tenths, multiply them exactly.
CONFIDENCE_THRESHOLD == 950
ERROR_THRESHOLD == 50

\* list(DOCUMENT_PATTERNS.keys()): the keys in insertion order
DocumentTypeList == <<"BANK_STATEMENT", "ISO_APPLICATION", "VOIDED_CHECK">>

\* weights that leave the pattern weight at 0.3 when no DL model is loaded
ensemble_weights_fixed(dl_model) ==
    [ml_model |-> 4, dl_model |-> IF dl_model THEN 3 ELSE 0, pattern_matching |-> 3]

\* classify_document, lines 141-145: ensemble_weights, in tenths
ensemble_weights(dl_model) ==
    [ ml_model |-> 4,
      dl_model |-> IF dl_model THEN 3 ELSE 0,
      pattern_matching |-> IF dl_model THEN 3 ELSE 6 ]

\* lines 131-135: dl_confidence is 0.0 unless a DL model is loaded
dl_confidence(dl_model, dl) == IF dl_model THEN dl ELSE 0

\* lines 147-151: final_confidence
final_confidence(ml, dl, pattern, dl_model) ==
    LET w == ensemble_weights(dl_model)
    IN (ml * w.ml_model
        + dl_confidence(dl_model, dl) * w.dl_model
        + pattern * w.pattern_matching) \div 10

\* DocumentClassifier.validate_classification(doc_type, confidence, metadata),
\* pattern_confidence being metadata.get('confidence', 0.0)
validate_classification(doc_type, confidence, pattern_confidence) ==
    IF confidence < CONFIDENCE_THRESHOLD
    THEN [is_valid |-> FALSE, message |-> "Confidence below threshold"]
    ELSE IF doc_type \notin DOCUMENT_PATTERNS
    THEN [is_valid |-> FALSE, message |-> "Invalid document type"]
    ELSE IF pattern_confidence < CONFIDENCE_THRESHOLD - ERROR_THRESHOLD
    THEN [is_valid |-> FALSE, message |-> "Pattern matching confidence too low"]
    ELSE [is_valid |-> TRUE, message |-> "Classification validated successfully"]

\* classify_document, lines 166-173: the dictionary recorded under
\* 'classification' on acceptance
classification_metadata(ml, dl, pattern, dl_model) ==
    [ ml_confidence |-> ml,
      dl_confidence |-> dl_confidence(dl_model, dl),
      pattern_confidence |-> pattern,
      ensemble_confidence |-> final_confidence(ml, dl, pattern, dl_model),
      ocr_metrics |-> "metrics",
      validation_result |-> "Classification validated successfully" ]

\* classify_document, lines 140-163: the ensemble decision from the models'
\* answers. ml_class_idx indexes the key list (IndexError past its end); a
\* failed validation raises ValueError.
classify_decision(ml, ml_class_idx, dl, pattern, dl_model) ==
    IF ml_class_idx + 1 \notin DOMAIN DocumentTypeList
    THEN Raised("IndexError: list index out of range")
    ELSE LET doc_type == DocumentTypeList[ml_class_idx + 1]
             confidence == final_confidence(ml, dl, pattern, dl_model)
             v == validate_classification(doc_type, confidence, pattern)
         IN IF ~v.is_valid
            THEN Raised("Classification validation failed")
            ELSE Returned([doc_type |-> doc_type, confidence |-> confidence])

\* a classifier that records its metadata before it validates
classify_document_effect_eager(doc, decision, t) ==
    update_metadata(doc, Dict({<<"classification", "unvalidated">>}), None, t)

\* lines 161-174: a rejected classification raises before the metadata
\* update; an accepted one records it
classify_document_effect(doc, decision, t) ==
    IF decision.raised
    THEN doc
    ELSE update_metadata(doc, Dict({<<"classification", decision.value.doc_type>>}), None, t)

\* what the models may answer in a run: the primary model's top probability
\* and class index, the DL model's top probability, the pattern confidence
MlConfidences == {400, 1000}
ClassIndexes == 0..3
DlConfidences == {1000}
PatternConfidences == {890, 900, 950}

\* --------------------------------------------------------------- Application
\* Application(...), lines 55-64: the fields update_status works on, created
\* at time t
NewApplication(t) ==
    [ status |-> "PENDING", updated_at |-> t, processed_at |-> NoTime,
      status_history |-> << >> ]

\* a check of the new status only, as Document.update_status makes
is_member_status(from_status, to_status) == to_status \in APPLICATION_STATUS

\* _is_valid_status_transition, lines 233-239:
\* to_status in valid_transitions.get(from_status, set())
is_valid_status_transition(from_status, to_status) ==
    LET valid_transitions ==
            [ PENDING |-> {"PROCESSING", "FAILED"},
              PROCESSING |-> {"COMPLETED", "FAILED"},
              FAILED |-> {"PROCESSING"},
              COMPLETED |-> {} ]
    IN /\ from_status \in DOMAIN valid_transitions
       /\ to_status \in valid_transitions[from_status]

\* lines 187-192: status_change
status_change(timestamp, old_status, new_status, context) ==
    [ timestamp |-> timestamp, from_status |-> old_status, to_status |-> new_status,
      context |-> context ]

\* Application.update_status(new_status, context), lines 175-202, with the
\* clock before the call; each datetime.now() reads the next tick. The result
\* holds the instance after the call, the clock, and the exception or the
\* status_change returned.
application_update_status(app, new_status, context, clock) ==
    LET old_status == app.status
    IN IF ~is_valid_status_transition(old_status, new_status)
       THEN [ app |-> app, clock |-> clock, raised |-> TRUE,
              value |-> status_change(NoTime, old_status, new_status, context) ]
       ELSE LET completed == new_status = "COMPLETED"
                stamp == IF completed THEN clock + 3 ELSE clock + 2
                change == status_change(stamp, old_status, new_status, context)
            IN [ app |-> [ status |-> new_status,
                           updated_at |-> clock + 1,
                           processed_at |-> IF completed THEN clock + 2
                                            ELSE app.processed_at,
                           status_history |-> Append(app.status_history, change) ],
                 clock |-> stamp, raised |-> FALSE, value |-> change ]

\* no update_status call made yet; the instance was created at tick 1
NoUpdate ==
    [ n |-> 0, clock |-> 1, new_status |-> None, context |-> None, raised |-> FALSE,
      value |-> status_change(NoTime, None, None, None) ]

\* ------------------------------------------------------------------- state
VARIABLES
    document,   \* the Document instance
    now,        \* datetime.now(timezone.utc), a logical clock
    ops,        \* operations started so far: direct calls and runs
    last,       \* the last Document method call: name, arguments, outcome
    proc,       \* entry point of the current or last run
    pc,         \* where that run stands
    image,      \* its image argument
    loc,        \* its local variables
    start,      \* status and audit-log length when it was entered
    log_errors, \* whether ERROR records of the processors' loggers are enabled
    call,       \* the last call of a function examined on its own: arguments, result
    thr,        \* concurrent callers: where each thread stands
    processing_lock,  \* DocumentProcessor._processing_lock: its holder or Free
    config,     \* the class Config: _instance, _lock and the instance's attributes
    metrics,    \* VoidedCheckProcessor._processing_metrics and the calls finished
    application, \* an Application instance: status, timestamps, status_history
    app_call    \* the last Application.update_status call and the clock it read

\* the state outside the single caller's run on the document
side == <<call, thr, processing_lock, config, application, app_call>>

vars == <<document, now, ops, last, proc, pc, image, loc, start, log_errors, side,
          metrics>>

Threads == {"t1", "t2"}
Free == "free"
NoFunction == [fn |-> "none"]
NoThread == [pc |-> "idle", confidence |-> 0, is_valid |-> FALSE]

\* voided_check_processor.py 69-75: the counters of a new processor;
\* finished counts the process() calls that have ended
NoMetrics == [total_processed |-> 0, successful |-> 0, failed |-> 0, finished |-> 0]

\* config.py 24-25: _instance = None, _lock = Lock(); no instance yet, so no
\* _initialized attribute and no configuration maps
NoConfig ==
    [ instances |-> 0, lock |-> Free, initialized |-> FALSE, maps |-> "unset",
      loads |-> 0 ]

NoCall == [op |-> "none"]
NoLocals ==
    [confidence |-> 0, is_valid |-> FALSE, doc_type |-> None, error |-> None,
     stages |-> <<>>]

\* the pipeline stages a run has been through, in order
Stages(l, names) == [l EXCEPT !.stages = @ \o names]

\* OCREngine.extract_text returned: validate_image and optimize_for_ocr
\* (ocr_engine.py 95-105), then the backend
OcrStages == <<"normalize", "ocr">>

\* TextExtractor.extract_financial_data / extract_merchant_info returned
\* (text_extractor.py 154-182, 198-228): extract_structured_data ran OCR,
\* matched the field patterns and called validate_document_data, and then
\* sanitize_sensitive_data encrypted the sensitive fields of the result
ExtractorStages == OcrStages \o <<"extract", "validate", "sanitize">>

\* no run is in flight
Idle == pc \in {"idle", "returned", "raised"}

\* between runs: no entry point is active and nothing of a run is kept
NoRun ==
    /\ proc = "none"
    /\ pc = "idle"
    /\ image = Image(800, 600, 3, 50)
    /\ loc = NoLocals
    /\ start = [status |-> "PENDING", audit_len |-> 0]

\* a direct call is made between runs: the finished run's frame is gone
ResetRun ==
    /\ proc' = "none"
    /\ pc' = "idle"
    /\ image' = Image(800, 600, 3, 50)
    /\ loc' = NoLocals
    /\ start' = [status |-> "PENDING", audit_len |-> 0]

Init ==
    /\ document = NewDocument(1)
    /\ now = 2
    /\ ops = 0
    /\ last = NoCall
    /\ NoRun
    /\ log_errors \in BOOLEAN
    /\ call = NoFunction
    /\ thr = [t \in Threads |-> NoThread]
    /\ processing_lock = Free
    /\ config = NoConfig
    /\ metrics = NoMetrics
    /\ application = NewApplication(1)
    /\ app_call = NoUpdate

\* document.update_status(...) inside a run; the statuses passed are members
DoUpdateStatus(new_status, reason) ==
    /\ document' = update_status(document, new_status, reason, None, now)
    /\ now' = now + 1
    /\ last' = [ op |-> "update_status", new_status |-> new_status,
                 reason |-> reason, user_id |-> None, raised |-> FALSE ]

\* document.update_metadata(...) inside a run
DoUpdateMetadata(new_metadata) ==
    /\ document' = update_metadata(document, new_metadata, None, now)
    /\ now' = now + 1
    /\ last' = [ op |-> "update_metadata", new_metadata |-> new_metadata,
                 user_id |-> None, raised |-> FALSE ]

Enter(p, img) ==
    /\ Idle
    /\ ops < MaxOps
    /\ ops' = ops + 1
    /\ proc' = p
    /\ image' = img
    /\ start' = [status |-> document.status, audit_len |-> Len(document.audit_log)]

\* a caller invokes document.update_status(new_status, reason, user_id)
CallUpdateStatus ==
    /\ Idle
    /\ ops < MaxOps
    /\ \E new_status \in StatusInputs, reason \in ReasonInputs, user_id \in UserIdInputs :
         /\ last' = [ op |-> "update_status", new_status |-> new_status,
                      reason |-> reason, user_id |-> user_id,
                      raised |-> update_status_raises(document, new_status) ]
         /\ IF update_status_raises(document, new_status)
            THEN UNCHANGED <<document, now>>
            ELSE /\ document' = update_status(document, new_status, reason, user_id, now)
                 /\ now' = now + 1
    /\ ops' = ops + 1
    /\ ResetRun
    /\ UNCHANGED <<log_errors, side, metrics>>

\* a caller invokes document.update_metadata(new_metadata, user_id)
CallUpdateMetadata ==
    /\ Idle
    /\ ops < MaxOps
    /\ \E new_metadata \in MetaInputs, user_id \in UserIdInputs :
         /\ last' = [ op |-> "update_metadata", new_metadata |-> new_metadata,
                      user_id |-> user_id, raised |-> FALSE ]
         /\ document' = update_metadata(document, new_metadata, user_id, now)
         /\ now' = now + 1
    /\ ops' = ops + 1
    /\ ResetRun
    /\ UNCHANGED <<log_errors, side, metrics>>

\* ---------------------------------------------- BankStatementProcessor
\* process_document, lines 68-72: the attempt starts by marking the document
BankStart ==
    /\ \E img \in RunImages : Enter("bank", img)
    /\ DoUpdateStatus("PROCESSING", "Starting bank statement processing")
    /\ pc' = "b_ocr"
    /\ loc' = NoLocals
    /\ UNCHANGED <<log_errors, side, metrics>>

\* lines 75-78: self._ocr_engine.extract_text(image=image, ...)
BankOcr ==
    /\ pc = "b_ocr"
    /\ \E r \in extract_text(image) :
         IF r.raised
         THEN /\ loc' = [loc EXCEPT !.error = r.message]
              /\ pc' = "b_except"
         ELSE /\ loc' = Stages([loc EXCEPT !.confidence = r.value], OcrStages)
              /\ pc' = "b_extract"
    /\ UNCHANGED <<document, now, ops, last, proc, image, start, log_errors, side, metrics>>

\* lines 80-89: extract_financial_data raises or returns the data that
\* validate_statement_data then judges
BankExtract ==
    /\ pc = "b_extract"
    /\ \/ /\ loc' = [loc EXCEPT !.error = "Financial data extraction error"]
          /\ pc' = "b_except"
       \/ \E is_valid \in BOOLEAN :
            /\ loc' = Stages([loc EXCEPT !.is_valid = is_valid],
                             ExtractorStages \o <<"validate">>)
            /\ pc' = "b_metadata"
    /\ UNCHANGED <<document, now, ops, last, proc, image, start, log_errors, side, metrics>>

BankMetadata ==
    Dict({ <<"processing_duration", "duration">>,
           <<"ocr_confidence", ConfStr(loc.confidence)>>,
           <<"ocr_metrics", "metrics">>,
           <<"validation_result", BoolStr(loc.is_valid)>>,
           <<"validation_message", "message">>,
           <<"processed_at", "isoformat">> })

\* lines 91-101: document.update_metadata(metadata)
BankUpdateMetadata ==
    /\ pc = "b_metadata"
    /\ DoUpdateMetadata(BankMetadata)
    /\ pc' = "b_final"
    /\ UNCHANGED <<ops, proc, image, loc, start, log_errors, side, metrics>>

\* lines 103-109: the final status
BankFinalStatus ==
    /\ pc = "b_final"
    /\ IF loc.is_valid /\ loc.confidence >= REQUIRED_CONFIDENCE
       THEN DoUpdateStatus("COMPLETED", "Successfully processed bank statement")
       ELSE DoUpdateStatus("FAILED", "Validation failed: message")
    /\ pc' = "returned"
    /\ UNCHANGED <<ops, proc, image, loc, start, log_errors, side, metrics>>

\* lines 111-115: the handler logs first. The logger carries the filter
\* _mask_sensitive_data (line 51), which calls re.sub in a module that never
\* imports re: an enabled ERROR record raises NameError out of the handler,
\* before update_status('FAILED') is reached.
BankExcept ==
    /\ pc = "b_except"
    /\ IF log_errors
       THEN /\ loc' = [loc EXCEPT !.error = "name 're' is not defined"]
            /\ pc' = "raised"
            /\ UNCHANGED <<document, now, last>>
       ELSE /\ DoUpdateStatus("FAILED", "Bank statement processing error")
            /\ pc' = "returned"
            /\ UNCHANGED loc
    /\ UNCHANGED <<ops, proc, image, start, log_errors, side, metrics>>

\* ------------------------------------------------- VoidedCheckProcessor
\* process, lines 88-93
VoidedStart ==
    /\ \E img \in RunImages : Enter("voided", img)
    /\ DoUpdateStatus("PROCESSING", None)
    /\ pc' = "v_preprocess"
    /\ loc' = NoLocals
    /\ UNCHANGED <<log_errors, side, metrics>>

\* line 96: self._ocr_engine.preprocess_image(image); the engine is whatever
\* was injected (OCREngine as declared has no such method: AttributeError)
VoidedPreprocess ==
    /\ pc = "v_preprocess"
    /\ \/ /\ loc' = [loc EXCEPT !.error = "no attribute 'preprocess_image'"]
          /\ pc' = "v_except"
       \/ /\ pc' = "v_ocr"
          /\ loc' = Stages(loc, <<"normalize">>)
    /\ UNCHANGED <<document, now, ops, last, proc, image, start, log_errors, side, metrics>>

\* lines 99-102
VoidedOcr ==
    /\ pc = "v_ocr"
    /\ \E r \in extract_text(image) :
         IF r.raised
         THEN /\ loc' = [loc EXCEPT !.error = r.message]
              /\ pc' = "v_except"
         ELSE /\ loc' = Stages([loc EXCEPT !.confidence = r.value], OcrStages)
              /\ pc' = "v_extract"
    /\ UNCHANGED <<document, now, ops, last, proc, image, start, log_errors, side, metrics>>

\* lines 105-108: extract_banking_info, validate_fields
VoidedExtract ==
    /\ pc = "v_extract"
    /\ \E is_valid \in BOOLEAN :
         loc' = Stages([loc EXCEPT !.is_valid = is_valid], <<"extract", "validate">>)
    /\ pc' = "v_metadata"
    /\ UNCHANGED <<document, now, ops, last, proc, image, start, log_errors, side, metrics>>

VoidedMetadata ==
    Dict({ <<"processing_metrics", "metrics">>,
           <<"validation_results", BoolStr(loc.is_valid)>>,
           <<"confidence_score", ConfStr(loc.confidence)>>,
           <<"processing_duration", "duration">> })

\* lines 111-116: document.update_metadata({...})
VoidedUpdateMetadata ==
    /\ pc = "v_metadata"
    /\ DoUpdateMetadata(VoidedMetadata)
    /\ pc' = "v_final"
    /\ UNCHANGED <<ops, proc, image, loc, start, log_errors, side, metrics>>

\* _update_metrics, lines 279-290: the counter of processed documents
update_metrics(m) == [m EXCEPT !.total_processed = @ + 1]

\* lines 118-130: status by validation, metrics, and the return expression
\* document.security_context[...]: Document declares no such field, so it
\* raises AttributeError inside the try block.
VoidedFinalStatus ==
    /\ pc = "v_final"
    /\ IF loc.is_valid
       THEN /\ DoUpdateStatus("COMPLETED", None)
            /\ metrics' = update_metrics([metrics EXCEPT !.successful = @ + 1])
       ELSE /\ DoUpdateStatus("FAILED", "Validation failed: errors")
            /\ metrics' = update_metrics([metrics EXCEPT !.failed = @ + 1])
    /\ loc' = [loc EXCEPT !.error = "no attribute 'security_context'"]
    /\ pc' = "v_except"
    /\ UNCHANGED <<ops, proc, image, start, log_errors, side>>

\* lines 132-136: the handler marks the document FAILED and re-raises
VoidedExcept ==
    /\ pc = "v_except"
    /\ DoUpdateStatus("FAILED", loc.error)
    /\ metrics' = [metrics EXCEPT !.failed = @ + 1, !.finished = @ + 1]
    /\ pc' = "raised"
    /\ UNCHANGED <<ops, proc, image, loc, start, log_errors, side>>

\* ---------------------------------------------------- DocumentClassifier
\* classify_document called directly on the document
ClassifyStart ==
    /\ \E img \in RunImages : Enter("classify", img)
    /\ pc' = "c_optimize"
    /\ loc' = NoLocals
    /\ UNCHANGED <<document, now, last, log_errors, side, metrics>>

\* ISOApplicationProcessor.process_document, line 111: the attempt starts
\* with classify_document(image, document)
IsoStart ==
    /\ \E img \in RunImages : Enter("iso", img)
    /\ pc' = "c_optimize"
    /\ loc' = NoLocals
    /\ UNCHANGED <<document, now, last, log_errors, side, metrics>>

\* classify_document raised (lines 178-180): it logs and re-raises; under
\* process_document the exception lands in that method's handler
ClassifyRaise(msg) ==
    /\ loc' = [loc EXCEPT !.error = msg]
    /\ pc' = IF proc = "iso" THEN "i_except" ELSE "raised"

\* line 114: optimize_for_ocr(image)
ClassifyOptimize ==
    /\ pc = "c_optimize"
    /\ \E r \in optimize_for_ocr(image) :
         IF r.raised
         THEN ClassifyRaise(r.message)
         ELSE /\ pc' = "c_ocr"
              /\ loc' = Stages([loc EXCEPT !.confidence = r.value.contrast],
                               <<"normalize">>)
    /\ UNCHANGED <<document, now, ops, last, proc, image, start, log_errors, side, metrics>>

\* lines 117-120: extract_text(processed_image); loc.confidence holds the
\* processed image's contrast until the OCR confidence replaces it
ClassifyOcr ==
    /\ pc = "c_ocr"
    /\ \E r \in extract_text(Image(image.width, image.height, 2, loc.confidence)) :
         IF r.raised
         THEN ClassifyRaise(r.message)
         ELSE /\ loc' = Stages([loc EXCEPT !.confidence = r.value], OcrStages)
              /\ pc' = "c_decide"
    /\ UNCHANGED <<document, now, ops, last, proc, image, start, log_errors, side, metrics>>

\* lines 122-176: models, ensemble, validate_classification; on rejection
\* ValueError, on acceptance the metadata update and the return
ClassifyDecide ==
    /\ pc = "c_decide"
    /\ \E ml \in MlConfidences, idx \in ClassIndexes, dl \in DlConfidences,
          pattern \in PatternConfidences, dl_model \in BOOLEAN :
         LET r == classify_decision(ml, idx, dl, pattern, dl_model)
         IN /\ document' = classify_document_effect(document, r, now)
            /\ IF r.raised
               THEN /\ ClassifyRaise(r.message)
                    /\ UNCHANGED <<now, last>>
               ELSE /\ now' = now + 1
                    /\ last' = [ op |-> "update_metadata",
                                 new_metadata |->
                                     Dict({<<"classification", r.value.doc_type>>}),
                                 classification |->
                                     classification_metadata(ml, dl, pattern, dl_model),
                                 dl_model |-> dl_model,
                                 user_id |-> None, raised |-> FALSE ]
                    /\ IF proc = "iso"
                       THEN IF r.value.doc_type # "ISO_APPLICATION"
                            THEN /\ loc' = Stages([loc EXCEPT !.doc_type = r.value.doc_type,
                                                              !.error = "Invalid document type"],
                                                  <<"classify">>)
                                 /\ pc' = "i_except"
                            ELSE /\ loc' = Stages([loc EXCEPT !.doc_type = r.value.doc_type],
                                                  <<"classify">>)
                                 /\ pc' = "i_ocr"
                       ELSE /\ loc' = Stages([loc EXCEPT !.doc_type = r.value.doc_type],
                                             <<"classify">>)
                            /\ pc' = "returned"
    /\ UNCHANGED <<ops, proc, image, start, log_errors, side, metrics>>

\* ------------------------------------------------ ISOApplicationProcessor
\* lines 116-119: self._text_extractor.extract_text(...); the extractor is
\* whatever was injected (TextExtractor as declared has no such method)
IsoOcr ==
    /\ pc = "i_ocr"
    /\ \E r \in extract_text(image) \cup {Raised("no attribute 'extract_text'")} :
         IF r.raised
         THEN /\ loc' = [loc EXCEPT !.error = r.message]
              /\ pc' = "i_except"
         ELSE /\ loc' = Stages([loc EXCEPT !.confidence = r.value], OcrStages)
              /\ pc' = "i_extract"
    /\ UNCHANGED <<document, now, ops, last, proc, image, start, log_errors, side, metrics>>

\* lines 121-139: extract_merchant_info raises or returns; extract_owner_info
\* and validate_application_data judge the data
IsoExtract ==
    /\ pc = "i_extract"
    /\ \/ /\ loc' = [loc EXCEPT !.error = "Merchant info extraction error"]
          /\ pc' = "i_except"
       \/ \E is_valid \in BOOLEAN :
            /\ loc' = Stages([loc EXCEPT !.is_valid = is_valid],
                             ExtractorStages \o <<"validate">>)
            /\ pc' = "i_finish"
    /\ UNCHANGED <<document, now, ops, last, proc, image, start, log_errors, side, metrics>>

\* lines 141-157: the metadata update, then sanitize_sensitive_data with
\* document.security_context.get(...): AttributeError inside the try block
IsoFinish ==
    /\ pc = "i_finish"
    /\ DoUpdateMetadata(Dict({<<"extraction_results", BoolStr(loc.is_valid)>>}))
    /\ loc' = [loc EXCEPT !.error = "no attribute 'security_context'"]
    /\ pc' = "i_except"
    /\ UNCHANGED <<ops, proc, image, start, log_errors, side, metrics>>

\* lines 159-162: the handler marks the document FAILED and re-raises
IsoExcept ==
    /\ pc = "i_except"
    /\ DoUpdateStatus("FAILED", "Processing error")
    /\ pc' = "raised"
    /\ UNCHANGED <<ops, proc, image, loc, start, log_errors, side, metrics>>

Next ==
    \/ BankStart \/ BankOcr \/ BankExtract \/ BankUpdateMetadata
    \/ BankFinalStatus \/ BankExcept
    \/ VoidedStart \/ VoidedPreprocess \/ VoidedOcr \/ VoidedExtract
    \/ VoidedUpdateMetadata \/ VoidedFinalStatus \/ VoidedExcept
    \/ ClassifyStart \/ IsoStart
    \/ ClassifyOptimize \/ ClassifyOcr \/ ClassifyDecide
    \/ IsoOcr \/ IsoExtract \/ IsoFinish \/ IsoExcept
    \/ CallUpdateStatus
    \/ CallUpdateMetadata

\* ------------------------------------------------------ concurrent callers
\* Each thread makes one call: BankStatementProcessor.process_document on the
\* one shared Document, or DocumentProcessor.process_document on a document
\* of its own. A thread's step is one statement group of the method; the
\* steps of different threads interleave.
main ==
    <<ops, proc, pc, image, loc, start, log_errors, call, config, metrics,
      application, app_call>>

\* a status or metadata update made by a thread on the shared Document
ThreadUpdateStatus(new_status, reason) ==
    /\ document' = update_status(document, new_status, reason, None, now)
    /\ now' = now + 1
    /\ last' = [ op |-> "update_status", new_status |-> new_status,
                 reason |-> reason, user_id |-> None, raised |-> FALSE ]

\* between the first update_status of an attempt and its final status
InFlight(t) == thr[t].pc \in {"tb_work", "tb_final", "tb_except"}

\* bank_statement_processor.py 68-72: nothing is acquired or tested before
\* document.update_status('PROCESSING', ...)
T_BankStart(t) ==
    /\ thr[t].pc = "idle"
    /\ ThreadUpdateStatus("PROCESSING", "Starting bank statement processing")
    /\ thr' = [thr EXCEPT ![t].pc = "tb_work"]
    /\ UNCHANGED <<main, processing_lock>>

\* lines 75-101: OCR and extraction raise, or the metadata is recorded
T_BankWork(t) ==
    /\ thr[t].pc = "tb_work"
    /\ \/ /\ thr' = [thr EXCEPT ![t].pc = "tb_except"]
          /\ UNCHANGED <<document, now, last>>
       \/ \E r \in {x \in extract_text(Image(800, 600, 3, 50)) : ~x.raised},
             is_valid \in BOOLEAN :
            LET metadata == Dict({ <<"processing_duration", "duration">>,
                                   <<"ocr_confidence", ConfStr(r.value)>>,
                                   <<"ocr_metrics", "metrics">>,
                                   <<"validation_result", BoolStr(is_valid)>>,
                                   <<"validation_message", "message">>,
                                   <<"processed_at", "isoformat">> })
            IN /\ document' = update_metadata(document, metadata, None, now)
               /\ now' = now + 1
               /\ last' = [ op |-> "update_metadata", new_metadata |-> metadata,
                            user_id |-> None, raised |-> FALSE ]
               /\ thr' = [thr EXCEPT ![t].pc = "tb_final",
                                     ![t].confidence = r.value,
                                     ![t].is_valid = is_valid]
    /\ UNCHANGED <<main, processing_lock>>

\* lines 103-109
T_BankFinal(t) ==
    /\ thr[t].pc = "tb_final"
    /\ IF thr[t].is_valid /\ thr[t].confidence >= REQUIRED_CONFIDENCE
       THEN ThreadUpdateStatus("COMPLETED", "Successfully processed bank statement")
       ELSE ThreadUpdateStatus("FAILED", "Validation failed: message")
    /\ thr' = [thr EXCEPT ![t].pc = "done"]
    /\ UNCHANGED <<main, processing_lock>>

\* lines 111-115 (see BankExcept)
T_BankExcept(t) ==
    /\ thr[t].pc = "tb_except"
    /\ IF log_errors
       THEN UNCHANGED <<document, now, last>>
       ELSE ThreadUpdateStatus("FAILED", "Bank statement processing error")
    /\ thr' = [thr EXCEPT ![t].pc = "done"]
    /\ UNCHANGED <<main, processing_lock>>

\* DocumentProcessor.process_document(document_data, ...) is called
P_Call(t) ==
    /\ thr[t].pc = "idle"
    /\ thr' = [thr EXCEPT ![t].pc = "p_acquire"]
    /\ UNCHANGED <<document, now, last, main, processing_lock>>

\* __init__.py 94-95: with self._processing_lock -- one lock of the
\* processor, whatever the document; threading.Lock blocks while it is held
P_Acquire(t) ==
    /\ thr[t].pc = "p_acquire"
    /\ processing_lock = Free
    /\ processing_lock' = t
    /\ thr' = [thr EXCEPT ![t].pc = "p_pipeline"]
    /\ UNCHANGED <<document, now, last, main>>

\* a pipeline that runs on to line 156: _update_performance_metrics, called
\* inside the with block, enters with self._processing_lock itself (line
\* 218); threading.Lock is not reentrant, so the holder waits for itself
P_PipelineMetrics(t) ==
    /\ thr[t].pc = "p_pipeline"
    /\ processing_lock = t
    /\ thr' = [thr EXCEPT ![t].pc = "p_metrics"]
    /\ UNCHANGED <<document, now, last, main, processing_lock>>

\* lines 96-181, the pipeline inside the with block. Its first statement,
\* start_time = time.time(), reads a name the module never binds (nor cv2,
\* np, validate_image, optimize_for_ocr, Document): NameError leaves the
\* block, which releases the lock, and the handler re-raises.
P_Pipeline(t) ==
    /\ thr[t].pc = "p_pipeline"
    /\ processing_lock = t
    /\ processing_lock' = Free
    /\ thr' = [thr EXCEPT ![t].pc = "done"]
    /\ UNCHANGED <<document, now, last, main>>

\* ------------------------------------------------------------------ Config
\* a thread constructs Config(): __new__, then __init__ on what it returned
shared == <<document, now, last, ops, proc, pc, image, loc, start, log_errors,
            call, processing_lock, metrics, application, app_call>>

G_Call(t) ==
    /\ thr[t].pc = "idle"
    /\ thr' = [thr EXCEPT ![t].pc = "g_new"]
    /\ UNCHANGED <<shared, config>>

\* config.py 27-31, __new__: under cls._lock, the instance is created if
\* there is none
G_New(t) ==
    /\ thr[t].pc = "g_new"
    /\ config.lock = Free
    /\ config' = [config EXCEPT !.instances = IF @ = 0 THEN 1 ELSE @]
    /\ thr' = [thr EXCEPT ![t].pc = "g_check"]
    /\ UNCHANGED shared

\* line 35: if not hasattr(self, '_initialized'), read outside the lock
G_Check(t) ==
    /\ thr[t].pc = "g_check"
    /\ thr' = [thr EXCEPT ![t].pc = IF config.initialized THEN "done" ELSE "g_lock"]
    /\ UNCHANGED <<shared, config>>

\* line 36: with self._lock
G_Lock(t) ==
    /\ thr[t].pc = "g_lock"
    /\ config.lock = Free
    /\ config' = [config EXCEPT !.lock = t]
    /\ thr' = [thr EXCEPT ![t].pc = "g_reset"]
    /\ UNCHANGED shared

\* lines 37-40: the four maps are set to {}
G_Reset(t) ==
    /\ thr[t].pc = "g_reset"
    /\ config' = [config EXCEPT !.maps = "empty"]
    /\ thr' = [thr EXCEPT ![t].pc = "g_load"]
    /\ UNCHANGED shared

\* lines 41-42: _load_all_configs(), _initialized = True, and the lock is
\* released
G_Load(t) ==
    /\ thr[t].pc = "g_load"
    /\ config' = [config EXCEPT !.maps = "loaded", !.loads = @ + 1,
                                !.initialized = TRUE, !.lock = Free]
    /\ thr' = [thr EXCEPT ![t].pc = "done"]
    /\ UNCHANGED shared

NextThreads ==
    \E t \in Threads :
        \/ T_BankStart(t) \/ T_BankWork(t) \/ T_BankFinal(t) \/ T_BankExcept(t)
        \/ P_Call(t) \/ P_Acquire(t) \/ P_Pipeline(t)
        \/ G_Call(t) \/ G_New(t) \/ G_Check(t) \/ G_Lock(t) \/ G_Reset(t) \/ G_Load(t)

\* ---------------------------------------------------------- field validators
\* strings are sequences of one-character strings
DigitChars == <<"0", "1", "2", "3", "4", "5", "6", "7", "8", "9">>
IsDigit(ch) == \E n \in DOMAIN DigitChars : DigitChars[n] = ch
int(ch) == (CHOOSE n \in DOMAIN DigitChars : DigitChars[n] = ch) - 1
AllDigits(s) == \A i \in DOMAIN s : IsDigit(s[i])
Str(ns) == [i \in DOMAIN ns |-> DigitChars[ns[i] + 1]]

\* re.match(r'^[0-9]{lo,hi}$', s): $ also matches before one trailing newline
match_digits(s, lo, hi) ==
    \/ Len(s) \in lo..hi /\ AllDigits(s)
    \/ /\ Len(s) - 1 \in lo..hi
       /\ s[Len(s)] = "\n"
       /\ AllDigits(SubSeq(s, 1, Len(s) - 1))

\* VoidedCheckProcessor._validate_routing_number, lines 244-257: int(d) of
\* every character (ValueError), then digits[0..8] (IndexError); both
\* exceptions are caught and give False
validate_routing_number(routing_number) ==
    IF ~AllDigits(routing_number) THEN FALSE
    ELSE IF Len(routing_number) < 9 THEN FALSE
    ELSE LET digits(i) == int(routing_number[i + 1])
             checksum == 3 * (digits(0) + digits(3) + digits(6))
                       + 7 * (digits(1) + digits(4) + digits(7))
                       + (digits(2) + digits(5) + digits(8))
         IN checksum % 10 = 0

\* the bank name pattern of FIELD_PATTERNS (line 26) matches a name that ends
\* in Bank, Credit Union, Financial, N.A. or National Association
BankNames == {"First Bank", "Acme"}
match_bank_name(bank_name) == bank_name = "First Bank"

REQUIRED_FIELDS == {"routing_number", "account_number", "bank_name"}

\* extracted_data: the keys present and the value under each key
CheckData == [ keys : SUBSET REQUIRED_FIELDS,
               routing_number : {Str(<<0,2,1,0,0,0,0,2,1>>), Str(<<1,2,3,4,5,6,7,8,9>>),
                                 Str(<<0,2,1,0,0,0,0,2>>), Str(<<0,2,1,0,0,0,0,2,1,0>>),
                                 Str(<<0,2,1,0,0,0,0,2>>) \o <<"x">>,
                                 Str(<<0,2,1,0,0,0,0,2,1>>) \o <<"\n">>,
                                 <<>>},
               account_number : {Str(<<1,2,3,4,5,6,7,8>>), Str(<<1,2,3>>)},
               bank_name : BankNames ]

\* validate_fields, lines 160-169: the errors of the routing number
routing_number_errors(routing_number) ==
    IF ~match_digits(routing_number, 9, 9)
    THEN {"Invalid routing number format"}
    ELSE IF ~validate_routing_number(routing_number)
         THEN {"Invalid routing number checksum"}
         ELSE {}

\* VoidedCheckProcessor.validate_fields, lines 138-188: missing required
\* fields end the call at once with a message that names them; otherwise the
\* errors of the present fields are collected in validation_errors
validate_fields(extracted_data) ==
    LET missing_fields == REQUIRED_FIELDS \ extracted_data.keys
        validation_errors ==
            routing_number_errors(extracted_data.routing_number)
            \cup (IF ~match_digits(extracted_data.account_number, 8, 17)
                  THEN {"Invalid account number format"} ELSE {})
            \cup (IF ~match_bank_name(extracted_data.bank_name)
                  THEN {"Invalid bank name format"} ELSE {})
    IN IF missing_fields # {}
       THEN [ is_valid |-> FALSE, missing |-> missing_fields,
              fields_validated |-> {}, validation_errors |-> {} ]
       ELSE [ is_valid |-> validation_errors = {}, missing |-> {},
              fields_validated |-> REQUIRED_FIELDS,
              validation_errors |-> validation_errors ]

\* the required fields a validate_fields result names as offending: those of
\* the "Missing required fields" message and those of validation_errors
Reported(result) ==
    result.missing
    \cup {f \in REQUIRED_FIELDS :
            \E e \in result.validation_errors :
                \/ f = "routing_number" /\ e \in {"Invalid routing number format",
                                                   "Invalid routing number checksum"}
                \/ f = "account_number" /\ e = "Invalid account number format"
                \/ f = "bank_name" /\ e = "Invalid bank name format"}

\* BankStatementProcessor.validate_statement_data, lines 128-168: the first
\* failing check ends the call with its message
BANK_STATEMENT_FIELDS ==
    {"account_number", "routing_number", "balance", "monthly_revenue",
     "transaction_history"}

StatementData == [ keys : {BANK_STATEMENT_FIELDS, BANK_STATEMENT_FIELDS \ {"balance"}},
                   account_number : {Str(<<1,2,3,4,5,6,7,8>>), Str(<<1,2,3>>)},
                   routing_number : {Str(<<0,2,1,0,0,0,0,2,1>>), Str(<<1,2,3,4,5,6,7,8,9>>),
                                     Str(<<0,2,1,0,0,0,0,2>>) \o <<"x">>,
                                     Str(<<0,2,1,0,0,0,0,2>>), <<>>},
                   balance : {-1, 100},
                   monthly_revenue : {-1, 100},
                   transaction_history : {"list", "not_a_list", "incomplete_transaction"} ]

validate_statement_data(extracted_data) ==
    LET missing_fields == BANK_STATEMENT_FIELDS \ extracted_data.keys
        verdict(ok, msg) == [is_valid |-> ok, message |-> msg]
    IN IF missing_fields # {}
       THEN verdict(FALSE, "Missing required fields")
       ELSE IF Len(extracted_data.account_number) < 8
       THEN verdict(FALSE, "Invalid account number format")
       ELSE IF Len(extracted_data.routing_number) # 9
       THEN verdict(FALSE, "Invalid routing number format")
       ELSE IF extracted_data.balance < 0
       THEN verdict(FALSE, "Invalid balance value")
       ELSE IF extracted_data.monthly_revenue < 0
       THEN verdict(FALSE, "Invalid monthly revenue value")
       ELSE IF extracted_data.transaction_history = "not_a_list"
       THEN verdict(FALSE, "Invalid transaction history format")
       ELSE IF extracted_data.transaction_history = "incomplete_transaction"
       THEN verdict(FALSE, "Invalid transaction format")
       ELSE verdict(TRUE, "Validation successful")

\* ------------------------------------------------------------ OCR retry loop
\* ocr_engine.MAX_RETRIES
MAX_RETRIES == 3
SUPPORTED_LANGUAGES == {"eng"}

\* the OCR backend by what each of its calls does: TRUE, it returns data;
\* FALSE, it raises. One call more than the loop may make.
Backends == [1..MAX_RETRIES + 1 -> BOOLEAN]

\* one pass of the loop body, lines 111-143: return on success; on an
\* exception re-raise in the last pass, else log a warning and go on
attempt_outcome_swallow(backend, attempt) ==
    IF backend[attempt + 1] THEN "return" ELSE "continue"

attempt_outcome(backend, attempt) ==
    IF backend[attempt + 1] THEN "return"
    ELSE IF attempt = MAX_RETRIES - 1 THEN "raise"
    ELSE "continue"

OcrResult(raised, message, attempts, calls) ==
    [ raised |-> raised, message |-> message, processing_attempts |-> attempts,
      backend_calls |-> calls ]

\* for attempt in range(MAX_RETRIES), line 110; a loop that runs out leaves
\* the function at its end, which returns None
RECURSIVE retry_loop(_, _)
retry_loop(backend, attempt) ==
    IF attempt >= MAX_RETRIES
    THEN OcrResult(FALSE, "None", 0, attempt)
    ELSE LET outcome == attempt_outcome(backend, attempt)
         IN IF outcome = "return"
            THEN OcrResult(FALSE, "", attempt + 1, attempt + 1)
            ELSE IF outcome = "raise"
            THEN OcrResult(TRUE, "backend error in attempt", attempt + 1, attempt + 1)
            ELSE retry_loop(backend, attempt + 1)

\* OCREngine.extract_text, lines 93-147, with the backend's behaviour given;
\* the outer handler logs and re-raises
extract_text_retrying(img, language, backend) ==
    IF ~validate_image(img).valid
    THEN OcrResult(TRUE, "Invalid image", 0, 0)
    ELSE IF language \notin SUPPORTED_LANGUAGES
    THEN OcrResult(TRUE, "Unsupported language", 0, 0)
    ELSE retry_loop(backend, 0)

\* ---------------------------------------------------------- field extraction
\* OCR confidences of the engine are percentages; here in hundredths of a
\* percent (95.0 is 9500). A threshold is compared with them as a number:
\* the module default 95.0 is 9500, the 0.85 that Config hands to the
\* engine DocumentProcessor builds (config.py 74, __init__.py 62-65) is 85.
EngineThresholds == {9500, 85}

\* round(x, 2) of num / den
Round(num, den) == (2 * num + den) \div (2 * den)

\* OCREngine._calculate_field_confidence, lines 261-279: under strict, 0.9
\* for every error pattern found in the value and 0.85 for a character
\* outside letters, digits, blanks, '-' and '.'
calculate_field_confidence(errors, unusual, overall_confidence, strict) ==
    IF ~strict THEN overall_confidence
    ELSE LET e == IF errors = 0 THEN 1 ELSE IF errors = 1 THEN 9 ELSE 81
             ed == IF errors = 0 THEN 1 ELSE IF errors = 1 THEN 10 ELSE 100
             u == IF unusual THEN 85 ELSE 100
         IN Round(overall_confidence * e * u, ed * 100)

\* OCREngine.extract_structured_fields, lines 175-198: the entry of one
\* field, from whether its pattern matched the text, what the first match
\* holds, the confidence of the OCR run and the engine's threshold
field_entry(matched, errors, unusual, confidence, strict, threshold) ==
    IF matched
    THEN LET field_confidence ==
                 calculate_field_confidence(errors, unusual, confidence, strict)
         IN [ value |-> "corrected", confidence |-> field_confidence,
              validated |-> field_confidence >= threshold ]
    ELSE [ value |-> "None", confidence |-> 0, validated |-> FALSE ]

\* text_extractor.CONFIDENCE_THRESHOLDS, lines 47-51, on the same scale
CONFIDENCE_THRESHOLDS ==
    [ BANK_STATEMENT |-> 9500, ISO_APPLICATION |-> 9000, VOIDED_CHECK |-> 9500 ]

\* ---------------------------------------------------------------- sanitizer
\* field names are sequences of characters
AccountNumber == <<"a", "c", "c", "o", "u", "n", "t", "_", "n", "u", "m", "b", "e", "r">>
BusinessName == <<"b", "u", "s", "i", "n", "e", "s", "s", "_", "n", "a", "m", "e">>
AccountingNote == <<"a", "c", "c", "o", "u", "n", "t", "i", "n", "g", "_", "n", "o", "t", "e">>
UpperSsn == <<"S", "S", "N">>
Protein == <<"p", "r", "o", "t", "e", "i", "n">>
AuditKey == <<"_", "a", "u", "d", "i", "t">>
SanitizedAtKey == <<"_", "s", "a", "n", "i", "t", "i", "z", "e", "d", "_", "a", "t">>

FieldNames == {AccountNumber, BusinessName, AccountingNote, UpperSsn, Protein, AuditKey}

\* str.lower() on the letters that occur
lower(name) ==
    [ i \in DOMAIN name |->
        IF name[i] = "S" THEN "s" ELSE IF name[i] = "N" THEN "n" ELSE name[i] ]

\* pattern in name: a substring test
Contains(name, pattern) ==
    \E i \in 0..(Len(name) - Len(pattern)) :
        SubSeq(name, i + 1, i + Len(pattern)) = pattern

SensitivePatterns ==
    { <<"s", "s", "n">>, <<"e", "i", "n">>, <<"a", "c", "c", "o", "u", "n", "t">>,
      <<"r", "o", "u", "t", "i", "n", "g">> }

\* a sensitivity test that forgets to lower the name
is_sensitive_cased(field) == \E pattern \in SensitivePatterns : Contains(field, pattern)

\* validation.py line 238
is_sensitive(field) == \E pattern \in SensitivePatterns : Contains(lower(field), pattern)

\* field values: None, a string, or a Fernet token of a plaintext
NoneValue == [kind |-> "None", text |-> ""]
StrValue(text) == [kind |-> "str", text |-> text]
Token(plaintext) == [kind |-> "token", text |-> plaintext]
FieldValues == {NoneValue, StrValue(""), StrValue("4242")}

\* str(value)
str(value) == IF value.kind = "None" THEN "None" ELSE value.text

\* input maps of at most two fields
SanitizeInputs ==
    UNION { [K -> FieldValues] : K \in {K \in SUBSET FieldNames : Cardinality(K) <= 2} }

\* sanitize_sensitive_data, lines 220-257, with a valid Fernet key: the
\* loop over the items, then the keys _audit and _sanitized_at are written
sanitize_sensitive_data(data) ==
    LET sanitized(field) ==
            IF is_sensitive(field) THEN Token(str(data[field])) ELSE data[field]
    IN [ field \in DOMAIN data \cup {AuditKey, SanitizedAtKey} |->
            IF field = AuditKey THEN [kind |-> "list", text |-> "audit_log"]
            ELSE IF field = SanitizedAtKey THEN StrValue("isoformat")
            ELSE sanitized(field) ]

\* ------------------------------------------------------- pattern matching
\* A text is the string of its leading words (head) followed by fill further
\* characters, all digits and blanks, which no substitution and no phrase
\* touches; only their number counts: [head |-> ..., fill |-> ...].
InClass(c, class) == \E i \in 1..Len(class) : SubSeq(class, i, i) = c

\* ERROR_PATTERNS in the order of the dictionary: character class, replacement
ERROR_PATTERNS ==
    << [pattern |-> "oO", replacement |-> "0"],
       [pattern |-> "iIl", replacement |-> "1"],
       [pattern |-> "sS", replacement |-> "5"] >>

\* re.sub(pattern, replacement, text) for a character class
RECURSIVE re_sub(_, _, _)
re_sub(class, replacement, text) ==
    IF text = "" THEN ""
    ELSE LET c == SubSeq(text, 1, 1)
         IN (IF InClass(c, class) THEN replacement ELSE c)
                \o re_sub(class, replacement, SubSeq(text, 2, Len(text)))

\* extract_text, lines 126-128: every pattern in turn over the whole text
RECURSIVE apply_error_patterns(_, _)
apply_error_patterns(patterns, text) ==
    IF patterns = << >> THEN text
    ELSE apply_error_patterns(Tail(patterns),
             re_sub(Head(patterns).pattern, Head(patterns).replacement, text))

\* the words as read, with no correction applied
uncorrected_text(raw) == [head |-> raw.head, fill |-> raw.fill]

\* the text extract_text returns for the words the backend read
corrected_text(raw) ==
    [head |-> apply_error_patterns(ERROR_PATTERNS, raw.head), fill |-> raw.fill]

\* str.lower()
RECURSIVE text_lower(_)
text_lower(text) ==
    IF text = "" THEN ""
    ELSE LET upper == "ABCDEFGHIJKLMNOPQRSTUVWXYZ"
             lowercase == "abcdefghijklmnopqrstuvwxyz"
             c == SubSeq(text, 1, 1)
             low == IF InClass(c, upper)
                    THEN LET i == CHOOSE i \in 1..Len(upper) : SubSeq(upper, i, i) = c
                         IN SubSeq(lowercase, i, i)
                    ELSE c
         IN low \o text_lower(SubSeq(text, 2, Len(text)))

\* DOCUMENT_PATTERNS with its values; content_chars is 1000 * content_ratio
document_patterns ==
    [ BANK_STATEMENT |->
        [ key_phrases |-> <<"account", "balance", "transaction", "statement", "deposit">>,
          layout |-> "tabular", content_chars |-> 700 ],
      ISO_APPLICATION |->
        [ key_phrases |-> <<"merchant", "business", "application", "owner", "ein">>,
          layout |-> "form", content_chars |-> 600 ],
      VOIDED_CHECK |->
        [ key_phrases |-> <<"pay to", "routing", "account", "void">>,
          layout |-> "check", content_chars |-> 400 ] ]

\* _validate_patterns, lines 314-335: the mean of phrase score, layout score
\* and content score of one type, as a fraction
type_confidence(patterns, text) ==
    LET lowered == text_lower(text.head)
        n == Len(patterns.key_phrases)
        phrase_matches ==
            Cardinality({ i \in 1..n : Contains(lowered, text_lower(patterns.key_phrases[i])) })
        layout_score == IF Contains(lowered, patterns.layout) THEN 1 ELSE 0
        length == Len(text.head) + text.fill
        content == IF length <= patterns.content_chars THEN length
                   ELSE patterns.content_chars
    IN [ num |-> phrase_matches * patterns.content_chars
                 + layout_score * n * patterns.content_chars
                 + content * n,
         den |-> 3 * n * patterns.content_chars ]

\* _validate_patterns, lines 338-339: the largest type confidence
validate_patterns(text) ==
    LET confidences == { type_confidence(document_patterns[t], text) : t \in DOMAIN document_patterns }
    IN CHOOSE c \in confidences : \A d \in confidences : d.num * c.den <= c.num * d.den

\* a fraction in thousandths, rounded down
Thousandths(p) == (1000 * p.num) \div p.den

\* what the backend may read: the leading words and the number of further
\* characters
OcrTexts ==
    { [head |-> head, fill |-> fill] :
        head \in { "", "account balance transaction statement deposit tabular",
                   "BALANCE TABULAR", "Statement of Account", "MERCHANT form",
                   "pay to routing account void check", "VOID CHECK" },
        fill \in {0, 300, 700} }

\* ------------------------------------------------------------ function calls
\* one call of a function of the service on arguments of the caller's choice;
\* call holds the function, its arguments and what it returned or raised
CallValidateFields ==
    /\ \E extracted_data \in CheckData :
         call' = [ fn |-> "validate_fields", extracted_data |-> extracted_data,
                   result |-> validate_fields(extracted_data) ]
    /\ UNCHANGED <<document, now, ops, last, proc, pc, image, loc, start,
                   log_errors, thr, processing_lock, config, metrics,
                   application, app_call>>

CallValidateStatementData ==
    /\ \E extracted_data \in StatementData :
         call' = [ fn |-> "validate_statement_data", extracted_data |-> extracted_data,
                   result |-> validate_statement_data(extracted_data) ]
    /\ UNCHANGED <<document, now, ops, last, proc, pc, image, loc, start,
                   log_errors, thr, processing_lock, config, metrics,
                   application, app_call>>

CallExtractText ==
    /\ \E img \in RunImages, language \in {"eng", "fra"}, backend \in Backends :
         call' = [ fn |-> "extract_text", image |-> img, language |-> language,
                   backend |-> backend,
                   result |-> extract_text_retrying(img, language, backend) ]
    /\ UNCHANGED <<document, now, ops, last, proc, pc, image, loc, start,
                   log_errors, thr, processing_lock, config, metrics,
                   application, app_call>>

\* the models' answers a caller may meet, in thousandths (whole hundredths,
\* so that the weighted sum divides exactly)
CallConfidences == {0, 400, 800, 890, 900, 940, 950, 1000}

\* classify_document, lines 124-163, from the models' answers on
CallClassifyDocument ==
    /\ \E ml \in CallConfidences \ {0, 890}, idx \in ClassIndexes, dl \in {950, 1000},
          pattern \in CallConfidences, dl_model \in BOOLEAN :
         call' = [ fn |-> "classify_document", ml_confidence |-> ml,
                   ml_class_idx |-> idx, dl_prediction |-> dl,
                   pattern_confidence |-> pattern, dl_model |-> dl_model,
                   ensemble_weights |-> ensemble_weights(dl_model),
                   final_confidence |-> final_confidence(ml, dl, pattern, dl_model),
                   result |-> classify_decision(ml, idx, dl, pattern, dl_model) ]
    /\ UNCHANGED <<document, now, ops, last, proc, pc, image, loc, start,
                   log_errors, thr, processing_lock, config, metrics,
                   application, app_call>>

\* DocumentClassifier.validate_classification called on its own
CallValidateClassification ==
    /\ \E doc_type \in DOCUMENT_PATTERNS \cup {"UNKNOWN"},
          confidence \in CallConfidences, pattern \in CallConfidences :
         call' = [ fn |-> "validate_classification", doc_type |-> doc_type,
                   confidence |-> confidence, pattern_confidence |-> pattern,
                   result |-> validate_classification(doc_type, confidence, pattern) ]
    /\ UNCHANGED <<document, now, ops, last, proc, pc, image, loc, start,
                   log_errors, thr, processing_lock, config, metrics,
                   application, app_call>>

\* extract_structured_fields on a document of a type, by an engine with a
\* threshold: the entry of one field
CallExtractStructuredFields ==
    /\ \E document_type \in DOMAIN CONFIDENCE_THRESHOLDS, threshold \in EngineThresholds,
          matched \in BOOLEAN, errors \in 0..2, unusual \in BOOLEAN,
          confidence \in {2000, 8000, 9600, 10000}, strict \in BOOLEAN :
         call' = [ fn |-> "extract_structured_fields", document_type |-> document_type,
                   threshold |-> threshold, matched |-> matched,
                   confidence |-> confidence,
                   field |-> field_entry(matched, errors, unusual, confidence,
                                         strict, threshold) ]
    /\ UNCHANGED <<document, now, ops, last, proc, pc, image, loc, start,
                   log_errors, thr, processing_lock, config, metrics,
                   application, app_call>>

CallSanitize ==
    /\ \E data \in SanitizeInputs :
         call' = [ fn |-> "sanitize_sensitive_data", data |-> data,
                   result |-> sanitize_sensitive_data(data) ]
    /\ UNCHANGED <<document, now, ops, last, proc, pc, image, loc, start,
                   log_errors, thr, processing_lock, config, metrics,
                   application, app_call>>

\* classify_document, lines 117-163, from the words the backend read and the
\* models' answers on
classify_text(raw, ml, idx, dl_model) ==
    LET text == corrected_text(raw)
        pattern == validate_patterns(text)
    IN [ fn |-> "classify_text", raw |-> raw, text |-> text,
         pattern_confidence |-> pattern,
         result |-> classify_decision(ml, idx, 1000, Thousandths(pattern), dl_model) ]

\* the calls of classify_document over the texts and the models' answers
ClassifyTextCalls ==
    { classify_text(x[1], x[2], x[3], x[4]) :
        x \in OcrTexts \X {950, 1000} \X (0..2) \X BOOLEAN }

CallClassifyText ==
    /\ \E c \in ClassifyTextCalls : call' = c
    /\ UNCHANGED <<document, now, ops, last, proc, pc, image, loc, start,
                   log_errors, thr, processing_lock, config, metrics,
                   application, app_call>>

NextCalls ==
    \/ CallClassifyText
    \/ CallValidateFields
    \/ CallSanitize
    \/ CallExtractStructuredFields
    \/ CallClassifyDocument
    \/ CallValidateClassification
    \/ CallExtractText
    \/ CallValidateStatementData

\* ------------------------------------------------------ Application calls
\* a caller calls application.update_status(new_status, context)
A_update_status(new_status, context) ==
    /\ app_call.n < MaxUpdates
    /\ LET r == application_update_status(application, new_status, context, app_call.clock)
       IN /\ application' = r.app
          /\ app_call' = [ n |-> app_call.n + 1, clock |-> r.clock,
                           new_status |-> new_status, context |-> context,
                           raised |-> r.raised, value |-> r.value ]
    /\ UNCHANGED <<document, now, ops, last, proc, pc, image, loc, start,
                   log_errors, call, thr, processing_lock, config, metrics>>

NextApplication ==
    \E new_status \in StatusInputs, context \in {"ctx1", "ctx2"} :
        A_update_status(new_status, context)

\* ================================================================= claims
\* the status_update entries of the audit log, in order
StatusEntries == SelectSeq(document.audit_log, LAMBDA e : e.action = "status_update")

IsPrefix(s, t) == Len(s) <= Len(t) /\ SubSeq(t, 1, Len(s)) = s

\* this step made one successful call of the named Document method
Called(op) == now' # now /\ last'.op = op

\* a processor attempt (not a bare classify_document call) has ended
AttemptEnded == proc \in {"bank", "voided", "iso"} /\ pc \in {"returned", "raised"}

\* C1: update_status succeeds only along the legal transitions, so every
\* status_update entry of the audit log is a legal (old, new) pair.
C1_AuditPairsLegal ==
    \A i \in 1..Len(StatusEntries) :
        <<StatusEntries[i].old_value, StatusEntries[i].new_value>> \in LegalTransitions

\* C2: COMPLETED is terminal: once the status is COMPLETED no step changes it.
C2_CompletedTerminal ==
    [][document.status = "COMPLETED" => document'.status = "COMPLETED"]_vars

\* C3: a processing attempt that has ended, by returning or by raising, leaves
\* the document COMPLETED, or FAILED with a non-empty failure_reason; never
\* PROCESSING and never PENDING.
C3_AttemptEndsFinal ==
    AttemptEnded =>
        \/ document.status = "COMPLETED"
        \/ document.status = "FAILED" /\ document.failure_reason \notin {None, ""}

\* C4: processed_at is set if and only if status = COMPLETED.
C4_ProcessedAtIffCompleted ==
    (document.processed_at # NoTime) <=> (document.status = "COMPLETED")

\* C5: failure_reason is set if and only if status = FAILED (so a retry
\* FAILED->PROCESSING leaves it unset).
C5_FailureReasonIffFailed ==
    (document.failure_reason # None) <=> (document.status = "FAILED")

\* C6: entering FAILED requires a non-empty reason, so a FAILED document has
\* a non-empty failure_reason.
C6_FailedHasReason ==
    document.status = "FAILED" => document.failure_reason \notin {None, ""}

\* the status_update entries chain from the initial status to the current one
C7_Chain ==
    LET se == StatusEntries
    IN /\ Len(se) = 0 => document.status = "PENDING"
       /\ Len(se) > 0 => /\ se[1].old_value = "PENDING"
                         /\ se[Len(se)].new_value = document.status
       /\ \A i \in 2..Len(se) : se[i].old_value = se[i - 1].new_value

\* a step that calls update_status appends one entry (old, new) and nothing else
C7_OneEntryPerCall ==
    Called("update_status") =>
        LET log == document.audit_log
            log2 == document'.audit_log
        IN /\ Len(log2) = Len(log) + 1
           /\ log2[Len(log2)].action = "status_update"
           /\ log2[Len(log2)].old_value = document.status
           /\ log2[Len(log2)].new_value = document'.status
           /\ document'.status = last'.new_status

\* C7: every successful update_status appends exactly one status_update
\* entry (old_value the status before, new_value the status after), and the
\* status_update entries form a chain from the initial status to the current.
C7_StatusAudit == []C7_Chain /\ [][C7_OneEntryPerCall]_vars

\* C7 witness: two status updates have been recorded, the last one just now
C7_Witness ==
    /\ last.op = "update_status" /\ ~last.raised
    /\ Len(StatusEntries) >= 2
    /\ StatusEntries[Len(StatusEntries)].old_value # StatusEntries[Len(StatusEntries)].new_value

\* C8: the audit log is append-only and its entries immutable: the log before
\* a step is an exact prefix of the log after it.
C8_AppendOnly ==
    [][IsPrefix(document.audit_log, document'.audit_log)]_vars

\* what one update_metadata(m) step does to the document
C9_Merge ==
    Called("update_metadata") =>
        LET m == last'.new_metadata
            log2 == document'.audit_log
        IN /\ \A k \in MetaKeys :
                document'.metadata[k] = IF m[k] # Absent THEN m[k] ELSE document.metadata[k]
           /\ Keys(document.metadata) \subseteq Keys(document'.metadata)
           /\ Len(log2) = Len(document.audit_log) + 1
           /\ log2[Len(log2)].action = "metadata_update"
           /\ log2[Len(log2)].old_value = document.metadata
           /\ log2[Len(log2)].new_value = document'.metadata
           /\ document'.status = document.status
           /\ document'.processed_at = document.processed_at
           /\ document'.failure_reason = document.failure_reason

\* C9: update_metadata(m) merges: keys of m take m's value, the others keep
\* theirs, one metadata_update entry is appended with the old and the new
\* map, and status, processed_at and failure_reason are untouched.
C9_MetadataMerge == [][C9_Merge]_vars

\* C9 witness: an update_metadata call has just overwritten one key, added
\* none of another that was already there, and the older key survived
C9_Witness ==
    /\ last.op = "update_metadata"
    /\ Keys(last.new_metadata) # {}
    /\ Keys(document.metadata) \ Keys(last.new_metadata) # {}
    /\ Len(document.audit_log) >= 2
    /\ document.audit_log[Len(document.audit_log)].action = "metadata_update"
    /\ document.audit_log[Len(document.audit_log)].old_value # document.metadata

\* C10: with an image outside the dimension bounds the entry point fails and
\* the document's status is what it was: no status_update entry is appended.
C10_InvalidImageKeepsStatus ==
    (proc # "none" /\ OutsideDimensions(image)) =>
        /\ pc # "returned"
        /\ document.status = start.status
        /\ \A i \in (start.audit_len + 1)..Len(document.audit_log) :
               document.audit_log[i].action # "status_update"

\* C11: when classify_document rejects a classification (ensemble or pattern
\* confidence below threshold) it raises and leaves the Document untouched:
\* same status, no classification metadata added, no audit entry added.
C11_RejectLeavesDocument ==
    [][(pc = "c_decide" /\ loc'.error = "Classification validation failed"
           /\ loc'.doc_type = None)
        => document' = document]_vars

\* C11 witness: a classify_document call on the document has just been
\* rejected by validate_classification
C11_Witness ==
    /\ proc = "classify"
    /\ pc = "raised"
    /\ loc.error = "Classification validation failed"
    /\ document.status = start.status

\* C12: at most one processing attempt is in flight per Document at any
\* time: two threads asking to process the same Document never both stand
\* between their attempt's first update_status and its final status.
C12_OneAttemptInFlight ==
    Cardinality({t \in Threads : InFlight(t)}) <= 1

\* C13: no stage of one document blocks another document's pipeline: a
\* DocumentProcessor.process_document call never has to wait for another
\* call, for a different document, to finish.
C13_NeverWaits ==
    \A t \in Threads :
        thr[t].pc = "p_acquire" => processing_lock \in {Free, t}

\* C14: within one attempt the stages run in the order normalize, OCR,
\* classify, extract fields, validate, sanitize: validation runs on the
\* extracted plaintext, so no validate stage comes after a sanitize stage, in
\* any processor.
C14_ValidateBeforeSanitize ==
    \A i, j \in DOMAIN loc.stages :
        (loc.stages[i] = "sanitize" /\ loc.stages[j] = "validate") => j < i

C16_ReportsAllOffending ==
    call.fn = "validate_fields" =>
        LET d == call.extracted_data
            offending ==
                (REQUIRED_FIELDS \ d.keys)
                \cup {f \in d.keys :
                        \/ f = "routing_number" /\ routing_number_errors(d.routing_number) # {}
                        \/ f = "account_number" /\ ~match_digits(d.account_number, 8, 17)
                        \/ f = "bank_name" /\ ~match_bank_name(d.bank_name)}
        IN /\ Reported(call.result) = offending
           /\ call.result.is_valid = (offending = {})

\* C17: extract_text retries backend failures only and at most MAX_RETRIES
\* times: it never calls the backend more than MAX_RETRIES times; an invalid
\* image or language raises without a backend call; if attempt k is the
\* first to succeed it returns with processing_attempts = k; if every attempt
\* fails, the exception of the last attempt reaches the caller.
C17_BoundedRetries ==
    call.fn = "extract_text" =>
        LET r == call.result
            b == call.backend
            accepted == validate_image(call.image).valid
                            /\ call.language \in SUPPORTED_LANGUAGES
            first(k) == b[k] /\ \A j \in 1..(k - 1) : ~b[j]
        IN /\ r.backend_calls <= MAX_RETRIES
           /\ ~accepted => (r.raised /\ r.backend_calls = 0)
           /\ accepted =>
                /\ \A k \in 1..MAX_RETRIES :
                     first(k) => (~r.raised /\ r.message = ""
                                    /\ r.processing_attempts = k
                                    /\ r.backend_calls = k)
                /\ (\A k \in 1..MAX_RETRIES : ~b[k])
                     => (r.raised /\ r.message = "backend error in attempt"
                            /\ r.processing_attempts = MAX_RETRIES)

\* the backend failed in every attempt and the last exception was raised
C17_Witness ==
    /\ call.fn = "extract_text"
    /\ \A k \in 1..MAX_RETRIES : ~call.backend[k]
    /\ call.result.raised
    /\ call.result.backend_calls = MAX_RETRIES

\* C18: a classification is accepted if and only if the ensemble confidence
\* is at least 0.95, the resolved type is one of the three known types and
\* the pattern confidence is at least 0.90; in every other case, an argmax
\* index that maps to no known type included, the outcome is the rejection
\* failure.
C18_AcceptedIff ==
    LET ok(known, confidence, pattern) ==
            known /\ confidence >= 950 /\ pattern >= 900
    IN /\ call.fn = "validate_classification" =>
            (call.result.is_valid
                <=> ok(call.doc_type \in {"BANK_STATEMENT", "ISO_APPLICATION", "VOIDED_CHECK"},
                       call.confidence, call.pattern_confidence))
       /\ call.fn = "classify_document" =>
            IF ok(call.ml_class_idx \in 0..2, call.final_confidence,
                  call.pattern_confidence)
            THEN ~call.result.raised
            ELSE call.result = Raised("Classification validation failed")

\* C19: the ensemble weights in force sum to 1.0, (0.4, 0.3, 0.3) with a
\* secondary model and (0.4, 0, 0.6) without; the ensemble confidence is the
\* weighted sum of the three confidences and lies in [0, 1]; primary 0.9,
\* no secondary model, pattern 0.8 give 0.84.
C19_EnsembleWeights ==
    call.fn = "classify_document" =>
        LET w == call.ensemble_weights
            secondary == IF call.dl_model THEN call.dl_prediction ELSE 0
        IN /\ w.ml_model + w.dl_model + w.pattern_matching = 10
           /\ <<w.ml_model, w.dl_model, w.pattern_matching>>
                = (IF call.dl_model THEN <<4, 3, 3>> ELSE <<4, 0, 6>>)
           /\ 10 * call.final_confidence
                = call.ml_confidence * w.ml_model + secondary * w.dl_model
                    + call.pattern_confidence * w.pattern_matching
           /\ call.final_confidence \in 0..1000
           /\ (call.ml_confidence = 900 /\ ~call.dl_model
                    /\ call.pattern_confidence = 800)
                => call.final_confidence = 840

\* the example: primary 0.9, no secondary model, pattern 0.8
C19_Witness ==
    /\ call.fn = "classify_document"
    /\ call.ml_confidence = 900
    /\ ~call.dl_model
    /\ call.pattern_confidence = 800
    /\ call.final_confidence = 840

\* C20: a routing-number check accepts a string exactly when it is nine
\* decimal digits whose weighted sum 3,7,1 is 0 modulo 10; every other string
\* is reported as invalid.
C20_RoutingCheck ==
    LET aba(s) ==
            /\ Len(s) = 9
            /\ AllDigits(s)
            /\ (3 * (int(s[1]) + int(s[4]) + int(s[7]))
                  + 7 * (int(s[2]) + int(s[5]) + int(s[8]))
                  + (int(s[3]) + int(s[6]) + int(s[9]))) % 10 = 0
        d == call.extracted_data
    IN /\ (call.fn = "validate_fields" /\ d.keys = REQUIRED_FIELDS)
            => ("routing_number" \notin Reported(call.result) <=> aba(d.routing_number))
       /\ (call.fn = "validate_statement_data" /\ d.keys = BANK_STATEMENT_FIELDS
                /\ call.result.message # "Invalid account number format")
            => (call.result.message # "Invalid routing number format"
                    <=> aba(d.routing_number))

\* C21: an extracted field is marked validated only if its confidence is at
\* or above the threshold configured for the type of the document (0.95 bank
\* statement, 0.90 application, 0.95 voided check); a field without a match
\* is never validated.
C21_ValidatedNeedsThreshold ==
    call.fn = "extract_structured_fields" =>
        /\ call.field.validated =>
                call.field.confidence >= CONFIDENCE_THRESHOLDS[call.document_type]
        /\ ~call.matched => ~call.field.validated

\* C22: sanitize_sensitive_data replaces the value of every field whose name
\* contains ssn, ein, account or routing, in any case, by an encrypted value,
\* and returns every other input field with its value unchanged:
\* account_number, accounting_note, SSN and protein are replaced,
\* business_name and every other name pass through.
C22_SanitizeFields ==
    call.fn = "sanitize_sensitive_data" =>
        \A field \in DOMAIN call.data :
            /\ field \in DOMAIN call.result
            /\ IF field \in {AccountNumber, AccountingNote, UpperSsn, Protein}
               THEN call.result[field] = Token(str(call.data[field]))
               ELSE call.result[field] = call.data[field]

\* C22 as amended: the same for every input field other than _audit and
\* _sanitized_at, the two keys the function writes itself.
C22_SanitizeFieldsAmended ==
    call.fn = "sanitize_sensitive_data" =>
        \A field \in DOMAIN call.data \ {AuditKey, SanitizedAtKey} :
            /\ field \in DOMAIN call.result
            /\ IF field \in {AccountNumber, AccountingNote, UpperSsn, Protein}
               THEN call.result[field] = Token(str(call.data[field]))
               ELSE call.result[field] = call.data[field]

\* SSN was encrypted and business_name passed through in one call
C22_Witness ==
    /\ call.fn = "sanitize_sensitive_data"
    /\ DOMAIN call.data = {UpperSsn, BusinessName}
    /\ call.result[UpperSsn] = Token("4242")
    /\ call.result[BusinessName] = StrValue("4242")

\* C23: the sanitizer drops no field, and a field whose input value is None
\* or empty, sensitive or not, is still None or empty in the output, not a
\* token.
C23_AbsencePreserved ==
    call.fn = "sanitize_sensitive_data" =>
        \A field \in DOMAIN call.data \ {AuditKey, SanitizedAtKey} :
            /\ field \in DOMAIN call.result
            /\ call.data[field] \in {NoneValue, StrValue("")}
                => call.result[field] = call.data[field]

\* C25: on every accepted classification classify_document records under
\* metadata['classification'] each source's confidence (primary, secondary,
\* pattern), the ensemble confidence and the weights used; exactly one
\* metadata_update entry is appended to the audit log, updated_at advances
\* and the status is unchanged.
C25_RecordsFullMetadata ==
    [][(pc = "c_decide" /\ loc'.doc_type # None)
        => /\ last'.op = "update_metadata"
           /\ document'.metadata["classification"] # Absent
           /\ {"ml_confidence", "dl_confidence", "pattern_confidence",
                "ensemble_confidence", "ensemble_weights"}
                    \subseteq DOMAIN last'.classification
           /\ Len(document'.audit_log) = Len(document.audit_log) + 1
           /\ document'.audit_log[Len(document'.audit_log)].action = "metadata_update"
           /\ document'.updated_at > document.updated_at
           /\ document'.status = document.status]_vars

C27_InitializedOnce ==
    /\ config.instances <= 1
    /\ config.loads <= 1
    /\ config.initialized => config.maps = "loaded"

\* C28: the metrics of VoidedCheckProcessor are consistent: whenever no call
\* is running, successful + failed = total_processed = the number of
\* process() calls that have finished, normally or by exception.
C28_MetricsConsistent ==
    Idle =>
        /\ metrics.successful + metrics.failed = metrics.total_processed
        /\ metrics.total_processed = metrics.finished

\* C29: the text extract_text returns holds none of o, O, i, I, l, s, S; so
\* the pattern confidence of _validate_patterns over it is at most 2/3, below
\* the 0.90 floor, and classify_document fed by it accepts nothing.
ForbiddenChars == "oOiIlsS"

NoForbiddenChar(text) ==
    \A i \in 1..Len(text) : ~InClass(SubSeq(text, i, i), ForbiddenChars)

ClaimedLifecycle ==
    { <<"PENDING", "PROCESSING">>, <<"PENDING", "FAILED">>,
      <<"PROCESSING", "COMPLETED">>, <<"PROCESSING", "FAILED">>,
      <<"FAILED", "PROCESSING">> }

LegalChain(app) ==
    LET h == app.status_history
    IN /\ \A i \in DOMAIN h :
            /\ <<h[i].from_status, h[i].to_status>> \in ClaimedLifecycle
            /\ i > 1 => h[i].from_status = h[i - 1].to_status
       /\ h # << >> => h[Len(h)].to_status = app.status

C30_LifecycleEnforced ==
    /\ [][app_call'.n = app_call.n + 1
            => IF <<application.status, app_call'.new_status>> \notin ClaimedLifecycle
               THEN /\ app_call'.raised
                    /\ application' = application
               ELSE /\ ~app_call'.raised
                    /\ application'.status = app_call'.new_status
                    /\ Len(application'.status_history)
                         = Len(application.status_history) + 1
                    /\ SubSeq(application'.status_history, 1,
                              Len(application.status_history))
                         = application.status_history
                    /\ application'.status_history[Len(application'.status_history)]
                           .from_status = application.status]_vars
    /\ [][application.status = "COMPLETED" => application'.status = "COMPLETED"]_vars
    /\ [](LegalChain(application))

\* a COMPLETED application with a chain of two entries refused a further call
C30_Witness ==
    /\ application.status = "COMPLETED"
    /\ Len(application.status_history) = 2
    /\ app_call.raised
    /\ app_call.new_status = "PROCESSING"
    /\ application.processed_at # NoTime

\* ========================================================= specifications
Spec == Init /\ [][Next]_vars

\* two threads calling the processors concurrently
SpecThreads == Init /\ [][NextThreads]_vars

\* the scheduler runs every thread that can take a step: a thread waiting for
\* a free lock takes it, a thread inside the with block goes on
SpecThreadsFair ==
    /\ Init
    /\ [][NextThreads]_vars
    /\ \A t \in Threads : WF_vars(P_Acquire(t)) /\ WF_vars(P_Pipeline(t))

SpecCalls == Init /\ [][NextCalls]_vars

SpecApplication == Init /\ [][NextApplication]_vars

====
